---- MODULE Spec2Model ----
(***************************************************************************)
(* A model of hbp_archive.py: Container's directory emulation over a flat  *)
(* key store, its cached metadata and ACL view, Project's lazily created   *)
(* session/connection, the content-type driven decoding of read(), the     *)
(* calls of File, PublicContainer's memoized listing, and copy/move next   *)
(* to another writer of the container.                                     *)
(*                                                                         *)
(* Strings that the code takes apart (object keys, ACL headers, content    *)
(* types) are sequences of one-character strings, so that startswith,      *)
(* os.path.basename, os.path.join, split and join are computed as Python   *)
(* computes them.                                                          *)
(***************************************************************************)
EXTENDS Integers, Sequences, FiniteSets, TLC

VARIABLES
    store,      \* backend: object key -> content id, for the container
    acl,        \* backend: [read, write] -> value of the x-container-<mode> header
    meta,       \* Container._metadata of each Container instance (None or a map)
    proj,       \* Project: _session, __connection, _user_id_map and creation counts
    last,       \* the last call: what was asked, the state it started from, the
                \* backend calls it made, what it logged and what came back
    steps,      \* number of calls made so far
    rd,         \* the object and arguments of a read() call, and its result
    pub,        \* a PublicContainer: _content_list and the listing requests it sent
    pend        \* the copy/move call that has probed its destination and has not
                \* yet sent its copy call (None when no call is in flight)

vars == <<store, acl, meta, proj, last, steps, rd, pub, pend>>

----------------------------------------------------------------------------
(* Bounds *)

MaxSteps == 2      \* calls per behaviour
MaxAclSteps == 3   \* calls per behaviour that may end in an ACL call
MaxBytes == 2      \* bytes per object handed to read()

None == "None"

\* the value of a cache field that holds nothing (Python None)
Unset == [unset |-> TRUE]

----------------------------------------------------------------------------
(* Python string helpers *)

Last(s) == s[Len(s)]

\* str.startswith
StartsWith(s, p) == Len(p) <= Len(s) /\ SubSeq(s, 1, Len(p)) = p

\* index of the last "/" of p, 0 when there is none (str.rfind + 1)
LastSlash(p) ==
    LET idx == {i \in 1..Len(p) : p[i] = "/"}
    IN  IF idx = {} THEN 0 ELSE CHOOSE i \in idx : \A j \in idx : j <= i

\* os.path.basename (posixpath): what follows the last slash
Basename(p) == SubSeq(p, LastSlash(p) + 1, Len(p))

RECURSIVE RStripSlash(_)
RStripSlash(s) ==
    IF s # <<>> /\ Last(s) = "/" THEN RStripSlash(SubSeq(s, 1, Len(s) - 1)) ELSE s

\* os.path.dirname (posixpath): the head up to the last slash, trailing
\* slashes stripped unless the head is slashes only
Dirname(p) ==
    LET head == SubSeq(p, 1, LastSlash(p))
    IN  IF head # <<>> /\ RStripSlash(head) # <<>> THEN RStripSlash(head) ELSE head

\* os.path.join(a, b) (posixpath)
Join(a, b) ==
    IF b # <<>> /\ b[1] = "/" THEN b
    ELSE IF a = <<>> \/ Last(a) = "/" THEN a \o b
    ELSE a \o <<"/">> \o b

\* os.path.join(a, b, c)
Join3(a, b, c) == Join(Join(a, b), c)

\* ord() of the characters used in keys
Ord(ch) ==
    CASE ch = "/" -> 47
      [] ch = "a" -> 97
      [] ch = "b" -> 98
      [] ch = "c" -> 99
      [] ch = "s" -> 115
      [] ch = "t" -> 116
      [] ch = "x" -> 120
      [] ch = "y" -> 121

\* s < t for Python strings (the order of a Swift container listing)
StrLess(s, t) ==
    \E i \in 1..(Len(t)) :
        /\ i <= Len(s) + 1
        /\ \A j \in 1..(i - 1) : s[j] = t[j]
        /\ (i = Len(s) + 1 \/ Ord(s[i]) < Ord(t[i]))

RECURSIVE SortedSeq(_)
SortedSeq(S) ==
    IF S = {} THEN <<>>
    ELSE LET m == CHOOSE k \in S : \A o \in S \ {k} : StrLess(k, o)
         IN  <<m>> \o SortedSeq(S \ {m})

RECURSIVE Filter(_, _)
Filter(seq, p) ==
    IF seq = <<>> THEN <<>>
    ELSE (IF StartsWith(seq[1], p) THEN <<seq[1]>> ELSE <<>>) \o Filter(Tail(seq), p)

----------------------------------------------------------------------------
(* The backend: one Swift container of flat keys (swiftclient.Connection)    *)

ContainerName == <<"c">>

Put(st, key, v) == [k \in (DOMAIN st) \cup {key} |-> IF k = key THEN v ELSE st[k]]

Remove(st, key) == [k \in (DOMAIN st) \ {key} |-> st[k]]

\* an object's length in bytes: the blob with content id n is n bytes long
Size(v) == v

RECURSIVE SumSizes(_, _)
SumSizes(st, keys) ==
    IF keys = {} THEN 0
    ELSE LET k == CHOOSE k \in keys : TRUE
         IN  Size(st[k]) + SumSizes(st, keys \ {k})

\* head_object(container, obj): returns headers, ClientException (404) when absent
HeadObjectOk(st, key) == key \in DOMAIN st

\* The Destination of copy_object is "container/object": Swift strips leading
\* slashes and splits at the first slash.
RECURSIVE LStripSlash(_)
LStripSlash(s) == IF s # <<>> /\ s[1] = "/" THEN LStripSlash(Tail(s)) ELSE s

DestSplit(destination) ==
    LET d == LStripSlash(destination)
        idx == {i \in 1..Len(d) : d[i] = "/"}
        cut == IF idx = {} THEN Len(d) + 1 ELSE CHOOSE i \in idx : \A j \in idx : i <= j
    IN  [container |-> SubSeq(d, 1, cut - 1), key |-> SubSeq(d, cut + 1, Len(d))]

\* copy_object(container, obj, destination): ClientException when the source
\* object or the destination container does not exist
CopyObject(st, obj, destination) ==
    LET d == DestSplit(destination)
    IN  IF obj \in DOMAIN st /\ d.container = ContainerName /\ d.key # <<>>
        THEN [ok |-> TRUE, store |-> Put(st, d.key, st[obj])]
        ELSE [ok |-> FALSE, store |-> st]

\* delete_object(container, obj): ClientException (404) when absent
DeleteObject(st, obj) ==
    IF obj \in DOMAIN st
    THEN [ok |-> TRUE, store |-> Remove(st, obj)]
    ELSE [ok |-> FALSE, store |-> st]

\* the headers of head_container / get_container
Headers(st, a) ==
    [count |-> Cardinality(DOMAIN st), bytes |-> SumSizes(st, DOMAIN st),
     read |-> a.read, write |-> a.write]

Call(fn, key) == [fn |-> fn, key |-> key]

----------------------------------------------------------------------------
(* Container: single-object operations.  Each returns the store it leaves,  *)
(* the backend calls it made and what it logged; all of them return None.   *)

ConflictMsg == "error: Target file path already exists!"

\* copy with the existence probe left out
ContainerCopy_NoProbe(st, file_path, target_directory, new_name, overwrite) ==
    LET nn == IF new_name = <<>> THEN Basename(file_path) ELSE new_name
        r == CopyObject(st, file_path, Join3(ContainerName, target_directory, nn))
    IN  [store |-> r.store,
         calls |-> <<Call("copy_object", file_path)>>,
         log |-> IF r.ok THEN <<"info: Successfully copied the object">>
                 ELSE <<"info: Failed to copy the object">>]

\* Container.copy
ContainerCopy(st, file_path, target_directory, new_name, overwrite) ==
    LET nn == IF new_name = <<>> THEN Basename(file_path) ELSE new_name
        probe == Join(target_directory, nn)
        head == IF overwrite THEN <<>> ELSE <<Call("head_object", probe)>>
    IN  IF ~overwrite /\ HeadObjectOk(st, probe)
        THEN [store |-> st, calls |-> head, log |-> <<ConflictMsg>>]
        ELSE LET r == CopyObject(st, file_path, Join3(ContainerName, target_directory, nn))
             IN  [store |-> r.store,
                  calls |-> head \o <<Call("copy_object", file_path)>>,
                  log |-> IF r.ok THEN <<"info: Successfully copied the object">>
                          ELSE <<"info: Failed to copy the object">>]

\* move that copies and forgets to delete the source
ContainerMove_NoDelete(st, file_path, target_directory, new_name, overwrite) ==
    LET nn == IF new_name = <<>> THEN Basename(file_path) ELSE new_name
        probe == Join(target_directory, nn)
        head == IF overwrite THEN <<>> ELSE <<Call("head_object", probe)>>
    IN  IF ~overwrite /\ HeadObjectOk(st, probe)
        THEN [store |-> st, calls |-> head, log |-> <<ConflictMsg>>]
        ELSE LET r == CopyObject(st, file_path, Join3(ContainerName, target_directory, nn))
             IN  [store |-> r.store,
                  calls |-> head \o <<Call("copy_object", file_path)>>,
                  log |-> IF r.ok THEN <<"info: Successfully moved the object">>
                          ELSE <<"error: Failed to move/rename the object">>]

\* move with the existence probe left out
ContainerMove_NoProbe(st, file_path, target_directory, new_name, overwrite) ==
    LET nn == IF new_name = <<>> THEN Basename(file_path) ELSE new_name
        r == CopyObject(st, file_path, Join3(ContainerName, target_directory, nn))
        d == DeleteObject(r.store, file_path)
    IN  IF ~r.ok
        THEN [store |-> st,
              calls |-> <<Call("copy_object", file_path)>>,
              log |-> <<"error: Failed to move/rename the object">>]
        ELSE [store |-> d.store,
              calls |-> <<Call("copy_object", file_path), Call("delete_object", file_path)>>,
              log |-> <<"info: Successfully moved the object">>]

\* Container.move
ContainerMove(st, file_path, target_directory, new_name, overwrite) ==
    LET nn == IF new_name = <<>> THEN Basename(file_path) ELSE new_name
        probe == Join(target_directory, nn)
        head == IF overwrite THEN <<>> ELSE <<Call("head_object", probe)>>
    IN  IF ~overwrite /\ HeadObjectOk(st, probe)
        THEN [store |-> st, calls |-> head, log |-> <<ConflictMsg>>]
        ELSE LET r == CopyObject(st, file_path, Join3(ContainerName, target_directory, nn))
                 d == DeleteObject(r.store, file_path)
             IN  IF ~r.ok
                 THEN [store |-> st,
                       calls |-> head \o <<Call("copy_object", file_path)>>,
                       log |-> <<"error: Failed to move/rename the object">>]
                 ELSE [store |-> d.store,
                       calls |-> head \o <<Call("copy_object", file_path),
                                           Call("delete_object", file_path)>>,
                       log |-> IF ~d.ok THEN <<"error: Failed to move/rename the object">>
                               ELSE IF Dirname(file_path) = target_directory
                               THEN <<"info: Successfully renamed the object">>
                               ELSE <<"info: Successfully moved the object">>]

\* Container.delete
ContainerDelete(st, file_path) ==
    LET d == DeleteObject(st, file_path)
    IN  [store |-> d.store,
         calls |-> <<Call("delete_object", file_path)>>,
         log |-> IF d.ok THEN <<"info: Successfully deleted the object">>
                 ELSE <<"error: Failed to delete the object">>]

----------------------------------------------------------------------------
(* Container: directory operations over the listing of list()               *)

\* the prefix used as given, no slash appended
DirPrefix_AsGiven(directory_path) == directory_path

DirPrefix(directory_path) ==
    IF Last(directory_path) # "/" THEN directory_path \o <<"/">> ELSE directory_path

\* dir_files: the listing (sorted by name, as Swift returns it) filtered by prefix
DirFiles(st, directory_path) == Filter(SortedSeq(DOMAIN st), DirPrefix(directory_path))

NoDirectory == "Exception: Specified directory does not exist in this container!"

RECURSIVE CopyEach(_, _, _, _)
CopyEach(st, files, target, overwrite) ==
    IF files = <<>> THEN [store |-> st, calls |-> <<>>, log |-> <<>>]
    ELSE LET r == ContainerCopy(st, files[1], target, <<>>, overwrite)
             rest == CopyEach(r.store, Tail(files), target, overwrite)
         IN  [store |-> rest.store, calls |-> r.calls \o rest.calls, log |-> r.log \o rest.log]

RECURSIVE MoveEach_StopAtConflict(_, _, _, _)
\* the loop ends at the first object whose move met an existing target
MoveEach_StopAtConflict(st, files, target, overwrite) ==
    IF files = <<>> THEN [store |-> st, calls |-> <<>>, log |-> <<>>]
    ELSE LET r == ContainerMove(st, files[1], target, <<>>, overwrite)
             rest == IF r.log = <<ConflictMsg>> THEN [store |-> r.store, calls |-> <<>>, log |-> <<>>]
                     ELSE MoveEach_StopAtConflict(r.store, Tail(files), target, overwrite)
         IN  [store |-> rest.store, calls |-> r.calls \o rest.calls, log |-> r.log \o rest.log]

RECURSIVE MoveEach(_, _, _, _)
MoveEach(st, files, target, overwrite) ==
    IF files = <<>> THEN [store |-> st, calls |-> <<>>, log |-> <<>>]
    ELSE LET r == ContainerMove(st, files[1], target, <<>>, overwrite)
             rest == MoveEach(r.store, Tail(files), target, overwrite)
         IN  [store |-> rest.store, calls |-> r.calls \o rest.calls, log |-> r.log \o rest.log]

RECURSIVE DeleteEach(_, _)
DeleteEach(st, files) ==
    IF files = <<>> THEN [store |-> st, calls |-> <<>>, log |-> <<>>]
    ELSE LET r == ContainerDelete(st, files[1])
             rest == DeleteEach(r.store, Tail(files))
         IN  [store |-> rest.store, calls |-> r.calls \o rest.calls, log |-> r.log \o rest.log]

\* Container.copy_directory
ContainerCopyDirectory(st, directory_path, target_directory, new_name, overwrite) ==
    LET nn == IF new_name = <<>> THEN Basename(DirPrefix(directory_path)) ELSE new_name
        dir_files == DirFiles(st, directory_path)
        r == CopyEach(st, dir_files, Join(target_directory, nn), overwrite)
    IN  IF dir_files = <<>>
        THEN [store |-> st, calls |-> <<Call("get_container", <<>>)>>, log |-> <<>>,
              res |-> NoDirectory]
        ELSE [store |-> r.store, calls |-> <<Call("get_container", <<>>)>> \o r.calls,
              log |-> r.log, res |-> None]

\* Container.move_directory
ContainerMoveDirectory(st, directory_path, target_directory, new_name, overwrite) ==
    LET nn == IF new_name = <<>> THEN Basename(DirPrefix(directory_path)) ELSE new_name
        dir_files == DirFiles(st, directory_path)
        r == MoveEach(st, dir_files, Join(target_directory, nn), overwrite)
    IN  IF dir_files = <<>>
        THEN [store |-> st, calls |-> <<Call("get_container", <<>>)>>, log |-> <<>>,
              res |-> NoDirectory]
        ELSE [store |-> r.store, calls |-> <<Call("get_container", <<>>)>> \o r.calls,
              log |-> r.log, res |-> None]

\* Container.delete_directory
ContainerDeleteDirectory(st, directory_path) ==
    LET dir_files == DirFiles(st, directory_path)
        r == DeleteEach(st, dir_files)
    IN  IF dir_files = <<>>
        THEN [store |-> st, calls |-> <<Call("get_container", <<>>)>>, log |-> <<>>,
              res |-> NoDirectory]
        ELSE [store |-> r.store, calls |-> <<Call("get_container", <<>>)>> \o r.calls,
              log |-> r.log, res |-> None]

----------------------------------------------------------------------------
(* Project: the lazily created session and connection, and the user map     *)

\* a connection (and session) made on every read of the property
ProjectConnection_NoMemo(p) ==
    [p EXCEPT !.session = p.sessionsCreated + 1,
              !.sessionsCreated = p.sessionsCreated + 1,
              !.connection = p.connectionsCreated + 1,
              !.connectionsCreated = p.connectionsCreated + 1]

\* Project._connection (with _set_scope): what the project is after the property
\* was read
ProjectConnection(p) ==
    IF p.connection = 0
    THEN LET withSession ==
                 IF p.session = 0
                 THEN [p EXCEPT !.session = p.sessionsCreated + 1,
                                !.sessionsCreated = p.sessionsCreated + 1]
                 ELSE p
         IN  [withSession EXCEPT !.connection = p.connectionsCreated + 1,
                                 !.connectionsCreated = p.connectionsCreated + 1]
    ELSE p

\* the content of project_info/user_ids below its "# user ids" line
UserIdMap == [u \in {<<"u1">>, <<"u2">>} |-> IF u = <<"u1">> THEN <<"alice">> ELSE <<"bob">>]

ProjectId == <<"p1">>

\* Project.users: read through the connection once, then cached
ProjectUsers(p) ==
    IF p.usersLoaded THEN p ELSE [ProjectConnection(p) EXCEPT !.usersLoaded = TRUE]

UsersCalls(p) ==
    IF p.usersLoaded THEN <<>>
    ELSE <<Call("get_account", <<>>), Call("get_object", <<"user_ids">>)>>

----------------------------------------------------------------------------
(* Container: metadata cache and the ACL view.  A header value is a sequence *)
(* of tokens ("p1", ":", "u1", ",", ...); an absent header is the empty one. *)

Modes == {"read", "write"}

RECURSIVE Split(_, _)
\* str.split(sep)
Split(s, sep) ==
    LET idx == {i \in 1..Len(s) : s[i] = sep}
        first == CHOOSE i \in idx : \A j \in idx : i <= j
    IN  IF idx = {} THEN <<s>>
        ELSE <<SubSeq(s, 1, first - 1)>> \o Split(SubSeq(s, first + 1, Len(s)), sep)

RECURSIVE JoinWith(_, _)
\* sep.join(parts)
JoinWith(parts, sep) ==
    IF parts = <<>> THEN <<>>
    ELSE IF Len(parts) = 1 THEN parts[1]
    ELSE parts[1] \o <<sep>> \o JoinWith(Tail(parts), sep)

PublicEntries == {<<".r", ":", "*">>, <<".rlistings">>}

\* "{}:{}".format(project.id, user_id)
Entry(user_id) == ProjectId \o <<":">> \o user_id

\* the metadata property with no cache: head_container on every read
Metadata_NeverCached(cached, st, a) == Headers(st, a)

\* Container.metadata: the cached map, fetched by head_container when None
Metadata(cached, st, a) == IF cached = Unset THEN Headers(st, a) ELSE cached

MetadataCalls(cached) == IF cached = Unset THEN <<Call("head_container", <<>>)>> ELSE <<>>

\* the first loop of access_control: the raw entries of each mode
RawAcl(m) ==
    [key \in Modes |-> IF m[key] # <<>> THEN Split(m[key], ",") ELSE m[key]]

\* an entry whose item.split(":")[1] raises IndexError
NoColon(item) == item \notin PublicEntries /\ Len(Split(item, ":")) < 2

RECURSIVE UserIds(_)
\* the user_ids of the second loop
UserIds(items) ==
    IF items = <<>> THEN <<>>
    ELSE IF items[1] \in PublicEntries THEN UserIds(Tail(items))
    ELSE <<Split(items[1], ":")[2]>> \o UserIds(Tail(items))

RECURSIVE MapNames(_)
\* [user_id_map.get(user_id, user_id) for user_id in user_ids]
MapNames(ids) ==
    IF ids = <<>> THEN <<>>
    ELSE <<IF ids[1] \in DOMAIN UserIdMap THEN UserIdMap[ids[1]] ELSE ids[1]>>
         \o MapNames(Tail(ids))

Public == <<"PUBLIC">>

ShownAcl(items) ==
    MapNames(UserIds(items))
        \o (IF \E i \in 1..Len(items) : items[i] \in PublicEntries THEN <<Public>> ELSE <<>>)

\* Container.access_control on the metadata m: the returned acl, or the
\* exception that left the call
ContainerAccessControl(m, show_usernames) ==
    LET raw == RawAcl(m)
    IN  IF ~show_usernames THEN [res |-> None, acl |-> raw]
        ELSE IF \E key \in Modes : \E i \in 1..Len(raw[key]) : NoColon(raw[key][i])
        THEN [res |-> "IndexError", acl |-> raw]
        ELSE [res |-> None, acl |-> [key \in Modes |-> ShownAcl(raw[key])]]

\* name_map = {v: k for k, v in self.project.users.items()}
NameMap ==
    [n \in {UserIdMap[u] : u \in DOMAIN UserIdMap} |->
        CHOOSE u \in DOMAIN UserIdMap : UserIdMap[u] = n]

\* grant_access without the final self._metadata = None
ContainerGrantAccess_KeepsCache(cached, st, a, p, username, mode) ==
    LET p1 == ProjectUsers(p)
        m == Metadata(cached, st, a)
        p2 == IF cached = Unset THEN ProjectConnection(p1) ELSE p1
        new_acl == Append(ContainerAccessControl(m, FALSE).acl[mode], Entry(NameMap[username]))
    IN  IF username \notin DOMAIN NameMap
        THEN [acl |-> a, metadata |-> cached, proj |-> p1, calls |-> UsersCalls(p),
              res |-> "KeyError"]
        ELSE [acl |-> [a EXCEPT ![mode] = JoinWith(new_acl, ",")],
              metadata |-> m,
              proj |-> ProjectConnection(p2),
              calls |-> UsersCalls(p) \o MetadataCalls(cached)
                        \o <<Call("post_container", <<mode>>)>>,
              res |-> None]

\* grant_access that looks the name up with name_map.get(username, username)
ContainerGrantAccess_UnknownPassed(cached, st, a, p, username, mode) ==
    LET p1 == ProjectUsers(p)
        m == Metadata(cached, st, a)
        p2 == IF cached = Unset THEN ProjectConnection(p1) ELSE p1
        user_id == IF username \in DOMAIN NameMap THEN NameMap[username] ELSE username
        new_acl == Append(ContainerAccessControl(m, FALSE).acl[mode], Entry(user_id))
    IN  [acl |-> [a EXCEPT ![mode] = JoinWith(new_acl, ",")],
         metadata |-> Unset,
         proj |-> ProjectConnection(p2),
         calls |-> UsersCalls(p) \o MetadataCalls(cached)
                   \o <<Call("post_container", <<mode>>)>>,
         res |-> None]

\* Container.grant_access on a Container whose cache is `cached`: the backend
\* acl and the cache it leaves, the project, the calls made and the outcome
ContainerGrantAccess(cached, st, a, p, username, mode) ==
    LET p1 == ProjectUsers(p)
        m == Metadata(cached, st, a)
        p2 == IF cached = Unset THEN ProjectConnection(p1) ELSE p1
        new_acl == Append(ContainerAccessControl(m, FALSE).acl[mode], Entry(NameMap[username]))
    IN  IF username \notin DOMAIN NameMap
        THEN [acl |-> a, metadata |-> cached, proj |-> p1, calls |-> UsersCalls(p),
              res |-> "KeyError"]
        ELSE [acl |-> [a EXCEPT ![mode] = JoinWith(new_acl, ",")],
              metadata |-> Unset,
              proj |-> ProjectConnection(p2),
              calls |-> UsersCalls(p) \o MetadataCalls(cached)
                        \o <<Call("post_container", <<mode>>)>>,
              res |-> None]

----------------------------------------------------------------------------
(* read(): content-type driven decoding.  A content-type header is a sequence *)
(* of tokens ("text", "/", "plain", ";", "charset=utf-8"), contents are a      *)
(* sequence of byte values, text a sequence of code points.                  *)

RECURSIVE Utf8Decode(_)
\* bytes.decode("utf-8") for one- and two-byte forms; any other lead byte, a
\* missing or a wrong continuation byte is a UnicodeDecodeError
Utf8Decode(bs) ==
    IF bs = <<>> THEN [ok |-> TRUE, text |-> <<>>]
    ELSE IF bs[1] < 128
    THEN LET r == Utf8Decode(Tail(bs)) IN [ok |-> r.ok, text |-> <<bs[1]>> \o r.text]
    ELSE IF bs[1] >= 194 /\ bs[1] <= 223 /\ Len(bs) >= 2 /\ bs[2] >= 128 /\ bs[2] <= 191
    THEN LET r == Utf8Decode(SubSeq(bs, 3, Len(bs)))
         IN  [ok |-> r.ok, text |-> <<(bs[1] - 192) * 64 + (bs[2] - 128)>> \o r.text]
    ELSE [ok |-> FALSE, text |-> <<>>]

\* bytes.decode("latin-1"): every byte is the code point of its value
Latin1Decode(bs) == [ok |-> TRUE, text |-> bs]

\* contents.decode(decode)
Decode(contents, decode) ==
    IF decode = "utf-8" THEN Utf8Decode(contents) ELSE Latin1Decode(contents)

\* the truth value of the decode argument (False, None and "" are falsy)
Truthy(decode) == decode \notin {"False", ""}

TextContentTypes == {<<"application", "/", "json">>}

\* content_type keeps only what precedes the first "/" of the tested type
Textual_PrimaryOnly(content_type, accept) == Split(content_type, "/")[1] = <<"text">>

\* ct_parts[0] == "text" or content_type in text_content_types or content_type in accept
Textual(content_type, accept) ==
    \/ Split(content_type, "/")[1] = <<"text">>
    \/ content_type \in TextContentTypes
    \/ content_type \in accept

Returned(content_type, contents, decode, accept) ==
    IF Textual(content_type, accept) /\ Truthy(decode)
    THEN LET r == Decode(contents, decode)
         IN  IF r.ok THEN [kind |-> "str", value |-> r.text]
             ELSE [kind |-> "raise", value |-> <<"UnicodeDecodeError">>]
    ELSE [kind |-> "bytes", value |-> contents]

\* Container.read on an object with the header content_type and these contents
ContainerRead(content_type, contents, decode, accept) ==
    Returned(content_type, contents, decode, accept)

\* PublicContainer.read: a header with a ";" is split in two first
PublicContainerRead(content_type, contents, decode, accept) ==
    LET parts == Split(content_type, ";")
    IN  IF \E i \in 1..Len(content_type) : content_type[i] = ";"
        THEN IF Len(parts) # 2 THEN [kind |-> "raise", value |-> <<"ValueError">>]
             ELSE Returned(parts[1], contents, decode, accept)
        ELSE Returned(content_type, contents, decode, accept)

----------------------------------------------------------------------------
(* Inputs *)

Instances == {1, 2}     \* two Container objects for the same container

A_x  == <<"a", "/", "x">>
A_sx == <<"a", "/", "s", "/", "x">>
A_sy == <<"a", "/", "s", "/", "y">>
AB_x == <<"a", "b", "/", "x">>
B_x  == <<"b", "/", "x">>

KeyPool == {A_x, A_sx, A_sy, AB_x, B_x}

\* every object starts with its own bytes
Content(k) ==
    CASE k = A_x -> 1 [] k = A_sx -> 2 [] k = A_sy -> 3 [] k = AB_x -> 4 [] k = B_x -> 5

InitStores == {[k \in S |-> Content(k)] : S \in {KeyPool, KeyPool \ {B_x}, {A_x, B_x}}}

FilePaths == {A_x, A_sx, B_x}
TargetDirs == {<<"b">>, <<"a">>}
NewNames == {<<>>, <<"y">>}
DirPaths == {<<"a">>, <<"a", "/">>, <<"a", "/", "s">>}
DirTargets == {<<"b">>, <<"t">>}
DirNames == {<<>>, <<"c">>}
Usernames == {<<"alice">>, <<"bob">>, <<"carol">>}

AclValues ==
    {<<>>, Entry(<<"u1">>),
     JoinWith(<<<<".r", ":", "*">>, <<".rlistings">>, Entry(<<"u9">>)>>, ",")}

NoArgs == [path |-> <<>>, target |-> <<>>, name |-> <<>>, overwrite |-> FALSE,
           user |-> <<>>, mode |-> "", show |-> FALSE]

NoPrev == [op |-> "", c |-> 0, args |-> NoArgs, res |-> None, log |-> <<>>,
           preAcl |-> [m \in Modes |-> <<>>]]

\* the preceding call, kept when this call repeats it or follows a grant_access
\* on the same Container object, and for count() and size()
Prev(op, c, args) ==
    IF last.c = c /\ ((last.op = op /\ last.args = args) \/ last.op = "grant_access"
                      \/ op \in {"count", "size"})
    THEN [op |-> last.op, c |-> last.c, args |-> last.args, res |-> last.res,
          log |-> last.log, preAcl |-> last.preAcl]
    ELSE NoPrev

\* what `last` records of a call
Record(op, c, args, calls, log, res, out) ==
    [op |-> op, c |-> c, args |-> args, pre |-> store, preAcl |-> acl, preMeta |-> meta,
     preProj |-> proj, calls |-> calls, log |-> log, res |-> res, out |-> out,
     prev |-> Prev(op, c, args)]

----------------------------------------------------------------------------
(* Initial state and the calls *)

InitWith(stores, acls) ==
    /\ store \in stores
    /\ acl \in acls
    /\ meta = [c \in Instances |-> Unset]
    /\ proj = [session |-> 0, connection |-> 0, sessionsCreated |-> 0,
               connectionsCreated |-> 0, usersLoaded |-> FALSE]
    /\ last = [op |-> "init", c |-> 0, args |-> NoArgs, pre |-> store, preAcl |-> acl,
               preMeta |-> meta, preProj |-> proj, calls |-> <<>>, log |-> <<>>,
               res |-> None, out |-> <<>>, prev |-> NoPrev]
    /\ steps = 0
    /\ rd = Unset
    /\ pub = [content_list |-> Unset, requests |-> <<>>]
    /\ pend = Unset

\* _set_scope raises (the token exchange is refused): the call that needed the
\* connection fails and nothing is created
ScopeFailure(c) ==
    /\ steps < MaxSteps
    /\ proj.connection = 0
    /\ last' = Record("any", c, NoArgs, <<>>, <<>>, "ScopeError", <<>>)
    /\ steps' = steps + 1
    /\ UNCHANGED <<store, acl, meta, proj, rd, pub, pend>>

List(c) ==
    /\ steps < MaxSteps
    /\ meta' = [meta EXCEPT ![c] = Headers(store, acl)]
    /\ proj' = ProjectConnection(proj)
    /\ last' = Record("list", c, NoArgs, <<Call("get_container", <<>>)>>, <<>>, None,
                      SortedSeq(DOMAIN store))
    /\ steps' = steps + 1
    /\ UNCHANGED <<store, acl, rd, pub, pend>>

Copy(c, f, t, n, o) ==
    /\ steps < MaxSteps
    /\ LET r == ContainerCopy(store, f, t, n, o)
       IN  /\ store' = r.store
           /\ last' = Record("copy", c,
                             [NoArgs EXCEPT !.path = f, !.target = t, !.name = n, !.overwrite = o],
                             r.calls, r.log, None, <<>>)
    /\ proj' = ProjectConnection(proj)
    /\ steps' = steps + 1
    /\ UNCHANGED <<acl, meta, rd, pub, pend>>

Move(c, f, t, n, o) ==
    /\ steps < MaxSteps
    /\ LET r == ContainerMove(store, f, t, n, o)
       IN  /\ store' = r.store
           /\ last' = Record("move", c,
                             [NoArgs EXCEPT !.path = f, !.target = t, !.name = n, !.overwrite = o],
                             r.calls, r.log, None, <<>>)
    /\ proj' = ProjectConnection(proj)
    /\ steps' = steps + 1
    /\ UNCHANGED <<acl, meta, rd, pub, pend>>

Delete(c, f) ==
    /\ steps < MaxSteps
    /\ LET r == ContainerDelete(store, f)
       IN  /\ store' = r.store
           /\ last' = Record("delete", c, [NoArgs EXCEPT !.path = f], r.calls, r.log, None, <<>>)
    /\ proj' = ProjectConnection(proj)
    /\ steps' = steps + 1
    /\ UNCHANGED <<acl, meta, rd, pub, pend>>

CopyDirectory(c, d, t, n, o) ==
    /\ steps < MaxSteps
    /\ LET r == ContainerCopyDirectory(store, d, t, n, o)
       IN  /\ store' = r.store
           /\ last' = Record("copy_directory", c,
                             [NoArgs EXCEPT !.path = d, !.target = t, !.name = n, !.overwrite = o],
                             r.calls, r.log, r.res, <<>>)
    /\ meta' = [meta EXCEPT ![c] = Headers(store, acl)]
    /\ proj' = ProjectConnection(proj)
    /\ steps' = steps + 1
    /\ UNCHANGED <<acl, rd, pub, pend>>

MoveDirectory(c, d, t, n, o) ==
    /\ steps < MaxSteps
    /\ LET r == ContainerMoveDirectory(store, d, t, n, o)
       IN  /\ store' = r.store
           /\ last' = Record("move_directory", c,
                             [NoArgs EXCEPT !.path = d, !.target = t, !.name = n, !.overwrite = o],
                             r.calls, r.log, r.res, <<>>)
    /\ meta' = [meta EXCEPT ![c] = Headers(store, acl)]
    /\ proj' = ProjectConnection(proj)
    /\ steps' = steps + 1
    /\ UNCHANGED <<acl, rd, pub, pend>>

DeleteDirectory(c, d) ==
    /\ steps < MaxSteps
    /\ LET r == ContainerDeleteDirectory(store, d)
       IN  /\ store' = r.store
           /\ last' = Record("delete_directory", c, [NoArgs EXCEPT !.path = d],
                             r.calls, r.log, r.res, <<>>)
    /\ meta' = [meta EXCEPT ![c] = Headers(store, acl)]
    /\ proj' = ProjectConnection(proj)
    /\ steps' = steps + 1
    /\ UNCHANGED <<acl, rd, pub, pend>>

AccessControl(c, show) ==
    /\ steps < MaxAclSteps
    /\ LET m == Metadata(meta[c], store, acl)
           r == ContainerAccessControl(m, show)
           p1 == IF meta[c] = Unset THEN ProjectConnection(proj) ELSE proj
       IN  /\ meta' = [meta EXCEPT ![c] = m]
           /\ proj' = IF show THEN ProjectUsers(p1) ELSE p1
           /\ last' = Record("access_control", c, [NoArgs EXCEPT !.show = show],
                             MetadataCalls(meta[c]) \o (IF show THEN UsersCalls(p1) ELSE <<>>),
                             <<>>, r.res, r.acl)
    /\ steps' = steps + 1
    /\ UNCHANGED <<store, acl, rd, pub, pend>>

GrantAccess(c, username, mode) ==
    /\ steps < MaxAclSteps
    /\ LET r == ContainerGrantAccess(meta[c], store, acl, proj, username, mode)
       IN  /\ acl' = r.acl
           /\ meta' = [meta EXCEPT ![c] = r.metadata]
           /\ proj' = r.proj
           /\ last' = Record("grant_access", c, [NoArgs EXCEPT !.user = username, !.mode = mode],
                             r.calls, <<>>, r.res, <<>>)
    /\ steps' = steps + 1
    /\ UNCHANGED <<store, rd, pub, pend>>

\* storage calls on one Container object
Init == InitWith(InitStores, {[m \in Modes |-> Entry(<<"u1">>)]})

Next ==
    \/ ScopeFailure(1)
    \/ List(1)
    \/ \E f \in FilePaths, t \in TargetDirs, n \in NewNames, o \in BOOLEAN : Copy(1, f, t, n, o)
    \/ \E f \in FilePaths, t \in TargetDirs, n \in NewNames, o \in BOOLEAN : Move(1, f, t, n, o)
    \/ \E f \in FilePaths : Delete(1, f)
    \/ \E d \in DirPaths, t \in DirTargets, n \in DirNames, o \in BOOLEAN :
          CopyDirectory(1, d, t, n, o)
    \/ \E d \in DirPaths, t \in DirTargets, n \in DirNames, o \in BOOLEAN :
          MoveDirectory(1, d, t, n, o)
    \/ \E d \in DirPaths : DeleteDirectory(1, d)

Spec == Init /\ [][Next]_vars

\* ACL calls on two Container objects of the same container
InitAcl == InitWith({[k \in {A_x, B_x} |-> Content(k)]}, [Modes -> AclValues])

NextAcl ==
    \/ \E c \in Instances : ScopeFailure(c)
    \/ \E c \in Instances : List(c)
    \/ \E c \in Instances, show \in BOOLEAN : AccessControl(c, show)
    \/ \E c \in Instances, u \in Usernames, m \in Modes : GrantAccess(c, u, m)

SpecAcl == InitAcl /\ [][NextAcl]_vars

----------------------------------------------------------------------------
(* Properties of the storage calls (checked under Spec)                      *)

\* the key a single-object call was asked to write: join(target_directory,
\* new_name), new_name defaulting to the basename of the source
Destination(args) ==
    Join(args.target, IF args.name = <<>> THEN Basename(args.path) ELSE args.name)

HasCall(fn) == \E i \in 1..Len(last.calls) : last.calls[i].fn = fn

\* d with one "/" appended when it does not end in one
Slashed(d) == IF d[Len(d)] = "/" THEN d ELSE d \o <<"/">>

\* the keys of st below the directory d, relative to it
RelativePaths(st, d) ==
    {SubSeq(k, Len(Slashed(d)) + 1, Len(k)) : k \in {j \in DOMAIN st : StartsWith(j, Slashed(d))}}

\* C1: after copy_directory(d, t) of a directory that matches at least one
\* object, into a target that held nothing, the keys below t are exactly the
\* relative sub-paths that were below d (nested ones included), each with the
\* bytes of its source, and every source object is as it was.
C1_CopyDirectoryKeepsTree ==
    (/\ last.op = "copy_directory"
     /\ last.res = None
     /\ last.args.name = <<>>
     /\ RelativePaths(last.pre, last.args.target) = {})
    => /\ RelativePaths(store, last.args.target) = RelativePaths(last.pre, last.args.path)
       /\ \A r \in RelativePaths(last.pre, last.args.path) :
              /\ Slashed(last.args.target) \o r \in DOMAIN store
              /\ store[Slashed(last.args.target) \o r] = last.pre[Slashed(last.args.path) \o r]
       /\ \A k \in DOMAIN last.pre : k \in DOMAIN store /\ store[k] = last.pre[k]

CopyConflict ==
    /\ last.op = "copy"
    /\ ~last.args.overwrite
    /\ Destination(last.args) \in DOMAIN last.pre

\* C2 as stated: copy without overwrite onto an existing destination key makes
\* no copy call, leaves the destination's bytes as they were, and the caller
\* gets a ConflictError.
C2_ConflictRaises ==
    CopyConflict
    => /\ ~HasCall("copy_object")
       /\ store = last.pre
       /\ last.res = "ConflictError"

\* C2 as amended: copy without overwrite onto an existing destination key makes
\* no copy call and leaves the destination's bytes (and the whole store) as they
\* were; the conflict is logged as an error and the call returns None, nothing
\* is raised.
C2_ConflictLoggedNotRaised ==
    CopyConflict
    => /\ ~HasCall("copy_object")
       /\ store = last.pre
       /\ last.res = None
       /\ last.log = <<ConflictMsg>>

C2_Witness == CopyConflict /\ last.args.name # <<>> /\ last.args.path \in DOMAIN last.pre

MoveNoConflict ==
    /\ last.op = "move"
    /\ last.args.path \in DOMAIN last.pre
    /\ Destination(last.args) \notin DOMAIN last.pre

\* C3: after move(a, b) of an existing key a to a destination key that did not
\* exist, the destination key (b joined with the basename of a, or with
\* new_name) is listed with a's bytes and a is not listed.
C3_MoveRelocates ==
    MoveNoConflict
    => /\ Destination(last.args) \in DOMAIN store
       /\ store[Destination(last.args)] = last.pre[last.args.path]
       /\ last.args.path \notin DOMAIN store

C3_Witness == MoveNoConflict /\ last.args.name # <<>> /\ ~last.args.overwrite

MovedMsgs == {<<"info: Successfully moved the object">>,
              <<"info: Successfully renamed the object">>}

\* a move that repeats, with the same arguments, the move before it, which
\* had copied the object and deleted the source
RepeatedMove ==
    /\ last.op = "move"
    /\ last.prev.op = "move"
    /\ last.prev.args = last.args
    /\ last.prev.log \in MovedMsgs

\* C4 as stated: the second of two identical moves, the first of which removed
\* the source, fails with a NotFoundError that the caller sees.
C4_SecondMoveRaisesNotFound == RepeatedMove => last.res = "NotFoundError"

\* C4 as amended: the second of two identical moves, the first of which removed
\* the source, raises nothing: it returns None after logging an error (the
\* existing-target error without overwrite, the move/rename failure with
\* overwrite), deletes nothing and leaves the store as it was.
C4_SecondMoveLogsAndReturns ==
    RepeatedMove
    => /\ last.res = None
       /\ store = last.pre
       /\ ~HasCall("delete_object")
       /\ last.log = IF last.args.overwrite
                     THEN <<"error: Failed to move/rename the object">>
                     ELSE <<ConflictMsg>>

C4_Witness == RepeatedMove /\ last.args.path \notin DOMAIN last.pre /\ ~last.args.overwrite

\* C5: delete_directory(d) deletes exactly the objects whose key starts with d
\* followed by one slash (d itself when it ends in a slash) and leaves every
\* other object as it was; a repeat of the call on the emptied prefix fails
\* with the directory-not-found exception and deletes nothing.
C5_DeleteDirectoryExact ==
    last.op = "delete_directory"
    => /\ last.res = None
          => /\ DOMAIN store = {k \in DOMAIN last.pre : ~StartsWith(k, Slashed(last.args.path))}
             /\ DOMAIN store # DOMAIN last.pre
             /\ \A k \in DOMAIN store : store[k] = last.pre[k]
       /\ (last.prev.op = "delete_directory" /\ last.prev.res = None)
          => /\ last.res = NoDirectory
             /\ ~HasCall("delete_object")
             /\ store = last.pre

C5_Witness ==
    /\ last.op = "delete_directory"
    /\ last.prev.op = "delete_directory"
    /\ last.prev.res = None
    /\ last.args.path = <<"a">>
    /\ AB_x \in DOMAIN store
    /\ B_x \in DOMAIN store

\* the objects a directory call works on, and where it sends each of them
Matching == {k \in DOMAIN last.pre : StartsWith(k, Slashed(last.args.path))}

DirDestination(f) == Join(Join(last.args.target, last.args.name), Basename(f))

\* of the matching objects sent to the same key, the first of the listing
FirstFor(k) ==
    CHOOSE g \in Matching :
        /\ DirDestination(g) = k
        /\ \A h \in Matching \ {g} : DirDestination(h) = k => StrLess(g, h)

DirectoryCallNoOverwrite ==
    /\ last.op \in {"copy_directory", "move_directory"}
    /\ ~last.args.overwrite
    /\ last.res = None

C9_OneSessionOneConnection ==
    /\ proj.sessionsCreated <= 1
    /\ proj.connectionsCreated <= 1
    /\ proj.session = proj.sessionsCreated
    /\ proj.connection = proj.connectionsCreated
    /\ proj.connection # 0 => proj.session # 0
    /\ last.op = "init" => proj.session = 0 /\ proj.connection = 0
    /\ last.preProj.connection # 0 => proj.connection = last.preProj.connection
    /\ last.preProj.session # 0 => proj.session = last.preProj.session

\* a call of one Container object goes through the connection that a call of
\* the other one had made
C9_Witness ==
    /\ last.op = "grant_access"
    /\ HasCall("head_container")
    /\ HasCall("post_container")
    /\ last.preProj.connection = 1
    /\ last.preMeta[3 - last.c] # Unset
    /\ proj.connection = 1

----------------------------------------------------------------------------
(* Properties of the ACL calls (checked under SpecAcl)                       *)

KnownNames == {UserIdMap[u] : u \in DOMAIN UserIdMap}

OtherMode(m) == IF m = "read" THEN "write" ELSE "read"

\* access_control() directly after a grant_access that went through, on the
\* same Container object
AccessControlAfterGrant ==
    /\ last.op = "access_control"
    /\ last.args.show
    /\ last.prev.op = "grant_access"
    /\ last.prev.c = last.c
    /\ last.prev.res = None

\* C6: grant_access(username, mode) for a username of the project's user map
\* goes through and clears the Container's cached metadata without touching the
\* other mode's ACL; the access_control() call that follows it on the same
\* Container fetches the metadata from the backend again and lists the username
\* under the mode, and under the other mode what the backend ACL held before
\* the grant.
C6_GrantThenAccessControl ==
    /\ (last.op = "grant_access" /\ last.args.user \in KnownNames)
       => /\ last.res = None
          /\ meta[last.c] = Unset
          /\ acl[OtherMode(last.args.mode)] = last.preAcl[OtherMode(last.args.mode)]
    /\ AccessControlAfterGrant
       => /\ HasCall("head_container")
          /\ last.res = None
          /\ \E i \in 1..Len(last.out[last.prev.args.mode]) :
                 last.out[last.prev.args.mode][i] = last.prev.args.user
          /\ last.out[OtherMode(last.prev.args.mode)]
                 = ShownAcl(RawAcl(last.prev.preAcl)[OtherMode(last.prev.args.mode)])

\* the grant was made on metadata cached before the call
C6_Witness ==
    /\ AccessControlAfterGrant
    /\ last.prev.args.user = <<"bob">>
    /\ last.prev.args.mode = "write"
    /\ last.prev.preAcl["read"] # <<>>
    /\ last.out["read"] # <<>>

\* C7: grant_access(username, mode) for a username that is not in the project's
\* user map fails with the lookup's KeyError before any metadata update is
\* sent: the backend ACL of both modes and the cached metadata of every
\* Container object are as they were.
C7_UnknownUserChangesNothing ==
    (last.op = "grant_access" /\ last.args.user \notin KnownNames)
    => /\ last.res = "KeyError"
       /\ ~HasCall("post_container")
       /\ ~HasCall("head_container")
       /\ acl = last.preAcl
       /\ meta = last.preMeta

C7_Witness ==
    /\ last.op = "grant_access"
    /\ last.args.user = <<"carol">>
    /\ last.preMeta[last.c] # Unset
    /\ meta[last.c] # Unset

----------------------------------------------------------------------------
(* read() on its own: one call per behaviour, on any object and arguments    *)

ByteValues == {65, 169, 195, 255}

Contents == UNION {[1..n -> ByteValues] : n \in 0..MaxBytes}

ContentTypes ==
    {<<"text", "/", "plain">>,
     <<"text", "/", "html", ";", "charset=utf-8">>,
     <<"text", "/", "plain", ";", "charset=utf-8", ";", "format=flowed">>,
     <<"application", "/", "json">>,
     <<"application", "/", "json", ";", "charset=utf-8">>,
     <<"application", "/", "octet-stream">>,
     <<"image", "/", "png">>}

Accepts == {{}, {<<"application", "/", "octet-stream">>},
            {<<"application", "/", "json", ";", "charset=utf-8">>}}

Decodes == {"False", "utf-8", "latin-1"}

InitRead == InitWith({[k \in {A_x} |-> Content(k)]}, {[m \in Modes |-> <<>>]})

Read(ct, b, d, a) ==
    /\ rd = Unset
    /\ rd' = [cls |-> "Container", ctype |-> ct, bytes |-> b, decode |-> d, accept |-> a,
              out |-> ContainerRead(ct, b, d, a)]
    /\ UNCHANGED <<store, acl, meta, proj, last, steps, pub, pend>>

PublicRead(ct, b, d, a) ==
    /\ rd = Unset
    /\ rd' = [cls |-> "PublicContainer", ctype |-> ct, bytes |-> b, decode |-> d, accept |-> a,
              out |-> PublicContainerRead(ct, b, d, a)]
    /\ UNCHANGED <<store, acl, meta, proj, last, steps, pub, pend>>

NextRead ==
    \/ \E ct \in ContentTypes, b \in Contents, d \in Decodes, a \in Accepts : Read(ct, b, d, a)
    \/ \E ct \in ContentTypes, b \in Contents, d \in Decodes, a \in Accepts : PublicRead(ct, b, d, a)

SpecRead == InitRead /\ [][NextRead]_vars

\* what the properties call text: the inverse direction of decoding
RECURSIVE Encoded(_, _)
Encoded(text, encoding) ==
    IF text = <<>> THEN <<>>
    ELSE (IF encoding = "utf-8" /\ text[1] >= 128
          THEN <<192 + (text[1] \div 64), 128 + (text[1] % 64)>>
          ELSE <<text[1]>>) \o Encoded(Tail(text), encoding)

CodePoints(encoding) == IF encoding = "utf-8" THEN {65, 233} ELSE ByteValues

\* some text has these bytes as its encoding
Decodable(bytes, encoding) ==
    \E n \in 0..Len(bytes) : \E text \in [1..n -> CodePoints(encoding)] :
        Encoded(text, encoding) = bytes

\* the header up to its first ";"
MediaType(header) ==
    LET idx == {i \in 1..Len(header) : header[i] = ";"}
    IN  IF idx = {} THEN header
        ELSE SubSeq(header, 1, (CHOOSE i \in idx : \A j \in idx : i <= j) - 1)

Semicolons(header) == Cardinality({i \in 1..Len(header) : header[i] = ";"})

IsTextual(content_type, accept) ==
    \/ content_type[1] = "text"
    \/ content_type = <<"application", "/", "json">>
    \/ content_type \in accept

----------------------------------------------------------------------------
(* access_control() over the ACL values a Swift container can hold           *)
(* (checked under SpecShow)                                                  *)

\* an ACL element that names a role: it has no scope separator
RoleEntry == <<"admin">>

\* header values as another client may have set them
ShowAclValues ==
    AclValues
    \cup {JoinWith(<<Entry(<<"u2">>), Entry(<<"u9">>), Entry(<<"u1">>)>>, ","),
          JoinWith(<<<<".rlistings">>, Entry(<<"u2">>), <<".r", ":", "*">>, <<".rlistings">>>>, ","),
          JoinWith(<<Entry(<<"u1">>), RoleEntry>>, ",")}

InitShow == InitWith({[k \in {A_x} |-> Content(k)]}, [Modes -> ShowAclValues])

NextShow ==
    \/ \E c \in Instances : List(c)
    \/ \E c \in Instances, show \in BOOLEAN : AccessControl(c, show)

SpecShow == InitShow /\ [][NextShow]_vars

\* the entries of a header value that are not public sentinels, in order
IdentityEntries(value) ==
    SelectSeq(IF value = <<>> THEN <<>> ELSE Split(value, ","),
              LAMBDA e : e \notin PublicEntries)

HasSentinel(value) ==
    value # <<>> /\ \E i \in 1..Len(Split(value, ",")) : Split(value, ",")[i] \in PublicEntries

\* the display of one identity entry "project:identifier"
Displayed(entry) ==
    LET identifier == SubSeq(entry, 3, Len(entry))
    IN  IF identifier \in DOMAIN UserIdMap THEN UserIdMap[identifier] ELSE identifier

\* C11: access_control() with username display never fails, whatever the raw
\* ACL holds; for each mode it lists, in order, the username of every identity
\* entry's identifier (the identifier itself when the user map has no name for
\* it) and then a single PUBLIC when the mode has one or more public sentinels.
C11_DisplayMapsAndNeverFails ==
    (last.op = "access_control" /\ last.args.show)
    => /\ last.res = None
       /\ \A mode \in Modes :
             LET ids == IdentityEntries(meta[last.c][mode])
                 shown == last.out[mode]
                 public == IF HasSentinel(meta[last.c][mode]) THEN 1 ELSE 0
             IN  /\ Len(shown) = Len(ids) + public
                 /\ \A i \in 1..Len(ids) : shown[i] = Displayed(ids[i])
                 /\ public = 1 => shown[Len(shown)] = Public

----------------------------------------------------------------------------
(* PublicContainer: the listing fetched over HTTP and kept in _content_list  *)
(* (checked under SpecPublic)                                                *)

MaxPublicSteps == 4    \* calls and remote changes per behaviour

RECURSIVE Entries(_, _)
\* the File objects of a listing response: name and bytes of each object
Entries(st, names) ==
    IF names = <<>> THEN <<>>
    ELSE <<[name |-> names[1], bytes |-> Size(st[names[1]])]>> \o Entries(st, Tail(names))

\* requests.get(self.url, headers={"Accept": "application/json"})
Response(st, ok) ==
    [ok |-> ok, body |-> IF ok THEN Entries(st, SortedSeq(DOMAIN st)) ELSE <<>>]

\* list() that keeps no listing
PublicContainerList_NoMemo(p, st, ok) ==
    LET response == Response(st, ok)
    IN  IF response.ok
        THEN [pub |-> [p EXCEPT !.requests = Append(@, response)],
              res |-> None, out |-> response.body]
        ELSE [pub |-> [p EXCEPT !.requests = Append(@, response)],
              res |-> "Exception", out |-> <<>>]

\* PublicContainer.list: the object it leaves, the outcome and the list
\* returned; a _content_list that is not None is [files |-> the list]
PublicContainerList(p, st, ok) ==
    LET response == Response(st, ok)
    IN  IF p.content_list = Unset
        THEN IF response.ok
             THEN [pub |-> [content_list |-> [files |-> response.body],
                            requests |-> Append(p.requests, response)],
                   res |-> None, out |-> response.body]
             ELSE [pub |-> [p EXCEPT !.requests = Append(@, response)],
                   res |-> "Exception", out |-> <<>>]
        ELSE [pub |-> p, res |-> None, out |-> p.content_list.files]

\* PublicContainer.get: the first File of list() named file_path
PublicContainerGet(p, st, ok, file_path) ==
    LET l == PublicContainerList(p, st, ok)
        found == {i \in 1..Len(l.out) : l.out[i].name = file_path}
    IN  IF l.res # None THEN l
        ELSE IF found = {} THEN [l EXCEPT !.res = "ValueError", !.out = <<>>]
        ELSE [l EXCEPT !.out = l.out[CHOOSE i \in found : \A j \in found : i <= j]]

\* PublicContainer.count: len(self.list())
PublicContainerCount(p, st, ok) ==
    LET l == PublicContainerList(p, st, ok)
    IN  IF l.res # None THEN l ELSE [l EXCEPT !.out = Len(l.out)]

RECURSIVE SumBytes(_)
SumBytes(files) == IF files = <<>> THEN 0 ELSE files[1].bytes + SumBytes(Tail(files))

\* PublicContainer.size(units='bytes'): sum(f.bytes for f in self.list())
PublicContainerSize(p, st, ok) ==
    LET l == PublicContainerList(p, st, ok)
    IN  IF l.res # None THEN l ELSE [l EXCEPT !.out = SumBytes(l.out)]

PublicKeys == {A_x, B_x}

\* the requests a call sent: the ones the object did not hold before
RequestCalls(before, after) ==
    IF Len(after.requests) > Len(before.requests) THEN <<Call("requests.get", <<>>)>> ELSE <<>>

PublicList(ok) ==
    /\ steps < MaxPublicSteps
    /\ LET r == PublicContainerList(pub, store, ok)
       IN  /\ pub' = r.pub
           /\ last' = Record("list", 0, NoArgs, RequestCalls(pub, r.pub), <<>>, r.res, r.out)
    /\ steps' = steps + 1
    /\ UNCHANGED <<store, acl, meta, proj, rd, pend>>

PublicGet(ok, file_path) ==
    /\ steps < MaxPublicSteps
    /\ LET r == PublicContainerGet(pub, store, ok, file_path)
       IN  /\ pub' = r.pub
           /\ last' = Record("get", 0, [NoArgs EXCEPT !.path = file_path],
                             RequestCalls(pub, r.pub), <<>>, r.res, r.out)
    /\ steps' = steps + 1
    /\ UNCHANGED <<store, acl, meta, proj, rd, pend>>

PublicCount(ok) ==
    /\ steps < MaxPublicSteps
    /\ LET r == PublicContainerCount(pub, store, ok)
       IN  /\ pub' = r.pub
           /\ last' = Record("count", 0, NoArgs, RequestCalls(pub, r.pub), <<>>, r.res, r.out)
    /\ steps' = steps + 1
    /\ UNCHANGED <<store, acl, meta, proj, rd, pend>>

PublicSize(ok) ==
    /\ steps < MaxPublicSteps
    /\ LET r == PublicContainerSize(pub, store, ok)
       IN  /\ pub' = r.pub
           /\ last' = Record("size", 0, NoArgs, RequestCalls(pub, r.pub), <<>>, r.res, r.out)
    /\ steps' = steps + 1
    /\ UNCHANGED <<store, acl, meta, proj, rd, pend>>

\* the owner of the container adds, replaces or removes an object
RemoteChange(k, v) ==
    /\ steps < MaxPublicSteps
    /\ store' = IF v = 0 THEN Remove(store, k) ELSE Put(store, k, v)
    /\ store' # store
    /\ steps' = steps + 1
    /\ UNCHANGED <<acl, meta, proj, last, rd, pub, pend>>

InitPublic ==
    InitWith({[k \in S |-> Content(k)] : S \in SUBSET PublicKeys}, {[m \in Modes |-> <<>>]})

NextPublic ==
    \/ \E ok \in BOOLEAN : PublicList(ok)
    \/ \E ok \in BOOLEAN, f \in PublicKeys : PublicGet(ok, f)
    \/ \E ok \in BOOLEAN : PublicCount(ok)
    \/ \E ok \in BOOLEAN : PublicSize(ok)
    \/ \E k \in PublicKeys, v \in {0, Content(A_x), Content(A_sx)} : RemoteChange(k, v)

SpecPublic == InitPublic /\ [][NextPublic]_vars

\* the listing requests that were answered with a listing
OkRequests == {i \in 1..Len(pub.requests) : pub.requests[i].ok}

PublicCallMade == last.c = 0 /\ last.op \in {"list", "get", "count", "size"}

\* what a call returns when it is computed from the listing `files`
FromListing(op, file_path, files) ==
    CASE op = "list" -> [res |-> None, out |-> files]
      [] op = "count" -> [res |-> None, out |-> Len(files)]
      [] op = "size" -> [res |-> None, out |-> SumBytes(files)]
      [] op = "get" ->
            IF \E i \in 1..Len(files) : files[i].name = file_path
            THEN [res |-> None,
                  out |-> files[CHOOSE i \in 1..Len(files) :
                                    /\ files[i].name = file_path
                                    /\ \A j \in 1..(i - 1) : files[j].name # file_path]]
            ELSE [res |-> "ValueError", out |-> <<>>]

\* C12: over any sequence of list/get/count/size calls on a PublicContainer at
\* most one listing request is answered successfully and none is sent after
\* it; the object holds the listing of that answer, and every call that does
\* not fail in its own fetch returns what that listing gives, whatever the
\* remote container holds by then; a request that failed leaves nothing
\* memoized, so that the call after it sends a request again.
C12_OneSuccessfulListing ==
    /\ Cardinality(OkRequests) <= 1
    /\ \A i \in OkRequests : i = Len(pub.requests)
    /\ IF OkRequests = {}
       THEN pub.content_list = Unset
       ELSE pub.content_list # Unset
            /\ pub.content_list.files = pub.requests[Len(pub.requests)].body
    /\ PublicCallMade
       => IF pub.content_list = Unset
          THEN last.res = "Exception" /\ last.calls = <<Call("requests.get", <<>>)>>
          ELSE LET r == FromListing(last.op, last.args.path, pub.content_list.files)
               IN  last.res = r.res /\ last.out = r.out

\* a failed request, a successful one, a change of the remote container, and
\* a count() that sends nothing and returns the count of the old listing
C12_Witness ==
    /\ Len(pub.requests) = 2
    /\ ~pub.requests[1].ok
    /\ pub.requests[2].ok
    /\ last.c = 0
    /\ last.op = "count"
    /\ last.calls = <<>>
    /\ last.out # Cardinality(DOMAIN store)

----------------------------------------------------------------------------
(* File: the calls a File object of a container's listing passes on to its   *)
(* Container (checked under SpecFile).  A File is its name; it may have      *)
(* been listed before a call that removed the object.                        *)

\* File.copy: the store, calls and log of the Container.copy call it makes
FileCopy(st, name, target_directory, new_name, overwrite) ==
    ContainerCopy(st, name, Dirname(name), new_name, overwrite)

\* File.move
FileMove(st, name, target_directory, new_name, overwrite) ==
    ContainerMove(st, name, target_directory, new_name, overwrite)

\* File.rename
FileRename(st, name, new_name, overwrite) ==
    FileMove(st, name, Dirname(name), new_name, overwrite)

\* File.delete
FileDelete(st, name) == ContainerDelete(st, name)

RenameNames == {<<"x">>, <<"y">>}

CopyFile(name, t, n, o) ==
    /\ steps < MaxSteps
    /\ LET r == FileCopy(store, name, t, n, o)
       IN  /\ store' = r.store
           /\ last' = Record("File.copy", 1,
                             [NoArgs EXCEPT !.path = name, !.target = t, !.name = n,
                                            !.overwrite = o],
                             r.calls, r.log, None, <<>>)
    /\ proj' = ProjectConnection(proj)
    /\ steps' = steps + 1
    /\ UNCHANGED <<acl, meta, rd, pub, pend>>

MoveFile(name, t, n, o) ==
    /\ steps < MaxSteps
    /\ LET r == FileMove(store, name, t, n, o)
       IN  /\ store' = r.store
           /\ last' = Record("File.move", 1,
                             [NoArgs EXCEPT !.path = name, !.target = t, !.name = n,
                                            !.overwrite = o],
                             r.calls, r.log, None, <<>>)
    /\ proj' = ProjectConnection(proj)
    /\ steps' = steps + 1
    /\ UNCHANGED <<acl, meta, rd, pub, pend>>

RenameFile(name, n, o) ==
    /\ steps < MaxSteps
    /\ LET r == FileRename(store, name, n, o)
       IN  /\ store' = r.store
           /\ last' = Record("File.rename", 1,
                             [NoArgs EXCEPT !.path = name, !.target = Dirname(name), !.name = n,
                                            !.overwrite = o],
                             r.calls, r.log, None, <<>>)
    /\ proj' = ProjectConnection(proj)
    /\ steps' = steps + 1
    /\ UNCHANGED <<acl, meta, rd, pub, pend>>

DeleteFile(name) ==
    /\ steps < MaxSteps
    /\ LET r == FileDelete(store, name)
       IN  /\ store' = r.store
           /\ last' = Record("File.delete", 1, [NoArgs EXCEPT !.path = name],
                             r.calls, r.log, None, <<>>)
    /\ proj' = ProjectConnection(proj)
    /\ steps' = steps + 1
    /\ UNCHANGED <<acl, meta, rd, pub, pend>>

NextFile ==
    \/ \E f \in FilePaths, t \in TargetDirs, n \in NewNames, o \in BOOLEAN : CopyFile(f, t, n, o)
    \/ \E f \in FilePaths, t \in TargetDirs, n \in NewNames, o \in BOOLEAN : MoveFile(f, t, n, o)
    \/ \E f \in FilePaths, n \in RenameNames, o \in BOOLEAN : RenameFile(f, n, o)
    \/ \E f \in FilePaths : DeleteFile(f)

SpecFile == Init /\ [][NextFile]_vars

\* C13: File.copy(target_directory, new_name, overwrite) on a File whose
\* object exists, with overwrite or with nothing stored yet at the
\* destination, leaves the file's bytes under join(target_directory, new_name
\* or the file's basename).
C13_FileCopyToTargetDirectory ==
    (/\ last.op = "File.copy"
     /\ last.args.path \in DOMAIN last.pre
     /\ (last.args.overwrite \/ Destination(last.args) \notin DOMAIN last.pre))
    => /\ Destination(last.args) \in DOMAIN store
       /\ store[Destination(last.args)] = last.pre[last.args.path]

\* C14: a move never loses data: after File.move or File.rename (both are one
\* Container.move call) on an object that exists, the bytes it held are stored
\* under the source key or under the destination key, also when the two keys
\* are the same; the source is deleted only after its bytes were copied to a
\* different key.
C14_MoveNeverLosesData ==
    (last.op \in {"File.move", "File.rename"} /\ last.args.path \in DOMAIN last.pre)
    => LET src == last.args.path
           dst == Destination(last.args)
           bytes == last.pre[src]
       IN  /\ \/ src \in DOMAIN store /\ store[src] = bytes
              \/ dst \in DOMAIN store /\ store[dst] = bytes
           /\ HasCall("delete_object")
              => dst # src /\ dst \in DOMAIN store /\ store[dst] = bytes

----------------------------------------------------------------------------
(* copy and move without overwrite, taken one backend call at a time, next   *)
(* to another client that writes to the same container (checked under       *)
(* SpecRace).  The probe and the copy call are two requests; between them    *)
(* the call is held in pend.                                                 *)

MaxRaceSteps == 3      \* backend requests per behaviour

B_y == <<"b", "/", "y">>

\* the bytes the other client uploads
WriterContent == 6

\* the rest of copy() once the probe has raised ClientException, sent again
\* behind a second probe
CopyAfterProbe_ProbesAgain(st, file_path, target_directory, new_name) ==
    ContainerCopy(st, file_path, target_directory, new_name, FALSE)

\* the rest of copy() once the probe has raised ClientException (pass): the
\* try block that is also what copy() does with overwrite=True
CopyAfterProbe(st, file_path, target_directory, new_name) ==
    ContainerCopy(st, file_path, target_directory, new_name, TRUE)

\* the rest of move() once the probe has raised ClientException
MoveAfterProbe(st, file_path, target_directory, new_name) ==
    ContainerMove(st, file_path, target_directory, new_name, TRUE)

ProbeKey(file_path, target_directory, new_name) ==
    Join(target_directory, IF new_name = <<>> THEN Basename(file_path) ELSE new_name)

\* copy()/move() with overwrite=False up to the answer of head_object: the
\* call ends here when the destination exists, and is held otherwise
Probe(op, c, f, t, n) ==
    /\ steps < MaxRaceSteps
    /\ pend = Unset
    /\ LET args == [NoArgs EXCEPT !.path = f, !.target = t, !.name = n]
           head == <<Call("head_object", ProbeKey(f, t, n))>>
       IN  IF HeadObjectOk(store, ProbeKey(f, t, n))
           THEN /\ last' = Record(op, c, args, head, <<ConflictMsg>>, None, <<>>)
                /\ pend' = pend
           ELSE /\ pend' = [op |-> op, c |-> c, args |-> args, calls |-> head, pre |-> store]
                /\ last' = last
    /\ proj' = ProjectConnection(proj)
    /\ steps' = steps + 1
    /\ UNCHANGED <<store, acl, meta, rd, pub>>

\* the held copy() sends copy_object and returns
CopySend ==
    /\ steps < MaxRaceSteps
    /\ pend # Unset
    /\ pend.op = "copy"
    /\ LET r == CopyAfterProbe(store, pend.args.path, pend.args.target, pend.args.name)
       IN  /\ store' = r.store
           /\ last' = Record("copy", pend.c, pend.args, pend.calls \o r.calls, r.log, None, <<>>)
    /\ pend' = Unset
    /\ steps' = steps + 1
    /\ UNCHANGED <<acl, meta, proj, rd, pub>>

\* the held move() sends copy_object and delete_object and returns
MoveSend ==
    /\ steps < MaxRaceSteps
    /\ pend # Unset
    /\ pend.op = "move"
    /\ LET r == MoveAfterProbe(store, pend.args.path, pend.args.target, pend.args.name)
       IN  /\ store' = r.store
           /\ last' = Record("move", pend.c, pend.args, pend.calls \o r.calls, r.log, None, <<>>)
    /\ pend' = Unset
    /\ steps' = steps + 1
    /\ UNCHANGED <<acl, meta, proj, rd, pub>>

\* another client of the container stores an object under key k
WriterPut(k) ==
    /\ steps < MaxRaceSteps
    /\ store' = Put(store, k, WriterContent)
    /\ steps' = steps + 1
    /\ UNCHANGED <<acl, meta, proj, last, rd, pub, pend>>

RaceSources == {A_x, B_x}

InitRace ==
    InitWith({[k \in S |-> Content(k)] : S \in {{A_x}, {A_x, B_x}}},
             {[m \in Modes |-> Entry(<<"u1">>)]})

NextRace ==
    \/ \E op \in {"copy", "move"}, f \in RaceSources, t \in TargetDirs, n \in NewNames :
          Probe(op, 1, f, t, n)
    \/ CopySend
    \/ MoveSend
    \/ \E k \in {B_x, B_y} : WriterPut(k)

SpecRace == InitRace /\ [][NextRace]_vars

\* the key the held call probed
PendingKey == ProbeKey(pend.args.path, pend.args.target, pend.args.name)

\* a step in which the held call sends its copy call and returns
Sends == pend # Unset /\ pend' = Unset

\* C15: the guard of copy/move without overwrite is a probe followed by the
\* copy call, with nothing done in between.  A call whose probe finds the
\* destination writes nothing; when the container is as it was at the probe,
\* the copy call leaves every object that existed with its bytes (but for the
\* source of a move); when another client has stored an object under the
\* destination since the probe found it absent, the call does not look again:
\* it sends copy_object and the destination (when it is not the source
\* itself) holds the source's bytes instead of the other client's.
C15_GuardIsCheckThenAct ==
    [][/\ (pend = Unset /\ last' # last /\ last'.op \in {"copy", "move"})
          => /\ Destination(last'.args) \in DOMAIN store
             /\ store' = store
             /\ last'.log = <<ConflictMsg>>
       /\ (pend = Unset /\ pend' # Unset) => PendingKey' \notin DOMAIN store /\ store' = store
       /\ (pend # Unset /\ ~Sends) => pend' = pend
       /\ (Sends /\ store = pend.pre)
          => \A k \in DOMAIN store :
                 \/ k \in DOMAIN store' /\ store'[k] = store[k]
                 \/ pend.op = "move" /\ k = pend.args.path
       /\ (Sends /\ PendingKey \in DOMAIN store /\ pend.args.path \in DOMAIN store)
          => /\ PendingKey \notin DOMAIN pend.pre
             /\ \E i \in 1..Len(last'.calls) : last'.calls[i].fn = "copy_object"
             /\ PendingKey # pend.args.path
                => PendingKey \in DOMAIN store' /\ store'[PendingKey] = store[pend.args.path]
      ]_vars

\* a copy to b/y that probed b/y, found nothing, and then replaced the
\* object the other client had stored there in the meantime
C15_Witness ==
    /\ last.op = "copy"
    /\ last.args.path = A_x
    /\ last.calls = <<Call("head_object", B_y), Call("copy_object", A_x)>>
    /\ B_y \in DOMAIN last.pre
    /\ last.pre[B_y] = WriterContent
    /\ store[B_y] = Content(A_x)

----------------------------------------------------------------------------
(* Container: count() and size() over the cached metadata, next to the calls *)
(* that change the container (checked under SpecCache)                       *)

MaxCacheSteps == 3     \* calls per behaviour that may end in count() or size()

\* the bytes of the local file `path`
LocalData(path) == 6 + Len(path)

RECURSIVE UploadEach(_, _, _, _, _)
\* the loop of upload() over local_paths, remote_paths being what it has
\* appended so far
UploadEach(st, local_paths, remote_directory, overwrite, remote_paths) ==
    IF local_paths = <<>>
    THEN [store |-> st, calls |-> <<>>, log |-> <<>>, res |-> remote_paths]
    ELSE LET remote_path == Join(remote_directory, Basename(local_paths[1]))
             head == IF overwrite THEN <<>> ELSE <<Call("head_object", remote_path)>>
             rest == UploadEach(Put(st, remote_path, LocalData(local_paths[1])),
                                Tail(local_paths), remote_directory, overwrite,
                                Append(remote_paths, remote_path))
         IN  IF ~overwrite /\ HeadObjectOk(st, remote_path)
             THEN [store |-> st, calls |-> head,
                   log |-> <<"error: File not uploaded. Reason: Target file path already exists!">>,
                   res |-> <<None>>]
             ELSE [rest EXCEPT !.calls = head \o <<Call("put_object", remote_path)>> \o @]

\* Container.upload; a single string is a list of one path, the result is the
\* list remote_paths, or <<None>> for the bare return at a conflict
ContainerUpload(st, local_paths, remote_directory, overwrite) ==
    UploadEach(st, local_paths, remote_directory, overwrite, <<>>)

LocalPaths == {<<<<"x">>>>, <<<<"t", "/", "y">>, <<"x">>>>}

Upload(c, l, d, o) ==
    /\ steps < MaxCacheSteps
    /\ LET r == ContainerUpload(store, l, d, o)
       IN  /\ store' = r.store
           /\ last' = Record("upload", c, [NoArgs EXCEPT !.target = d, !.overwrite = o],
                             r.calls, r.log, None, r.res)
    /\ proj' = ProjectConnection(proj)
    /\ steps' = steps + 1
    /\ UNCHANGED <<acl, meta, rd, pub, pend>>

\* Container.count: int(self.metadata['x-container-object-count'])
Count(c) ==
    /\ steps < MaxCacheSteps
    /\ LET m == Metadata(meta[c], store, acl)
       IN  /\ meta' = [meta EXCEPT ![c] = m]
           /\ last' = Record("count", c, NoArgs, MetadataCalls(meta[c]), <<>>, None, m.count)
    /\ proj' = IF meta[c] = Unset THEN ProjectConnection(proj) ELSE proj
    /\ steps' = steps + 1
    /\ UNCHANGED <<store, acl, rd, pub, pend>>

\* Container.size(units='bytes'): the x-container-bytes-used header over 1
ContainerSize(c) ==
    /\ steps < MaxCacheSteps
    /\ LET m == Metadata(meta[c], store, acl)
       IN  /\ meta' = [meta EXCEPT ![c] = m]
           /\ last' = Record("size", c, NoArgs, MetadataCalls(meta[c]), <<>>, None, m.bytes)
    /\ proj' = IF meta[c] = Unset THEN ProjectConnection(proj) ELSE proj
    /\ steps' = steps + 1
    /\ UNCHANGED <<store, acl, rd, pub, pend>>

InitCache ==
    InitWith({[k \in S |-> Content(k)] : S \in {{A_x, A_sx, B_x}, {A_x}}},
             {[m \in Modes |-> Entry(<<"u1">>)]})

NextCache ==
    \/ List(1)
    \/ Count(1)
    \/ ContainerSize(1)
    \/ \E l \in LocalPaths, o \in BOOLEAN : Upload(1, l, <<"a">>, o)
    \/ \E n \in NewNames, o \in BOOLEAN : Copy(1, A_x, <<"b">>, n, o)
    \/ \E n \in NewNames, o \in BOOLEAN : Move(1, A_x, <<"b">>, n, o)
    \/ \E f \in {A_x, B_x} : Delete(1, f)
    \/ \E d \in {<<"a">>, <<"t">>} : DeleteDirectory(1, d)
    \/ GrantAccess(1, <<"bob">>, "read")

SpecCache == InitCache /\ [][NextCache]_vars

\* the value count() or size() reads from the metadata m
Reading(op, m) == IF op = "count" THEN m.count ELSE m.bytes

\* the step is a call `op` on the Container object c
Calls(ops) == last' # last /\ last'.op \in ops

\* C16: count() and size() return the value held in the Container's cached
\* metadata, which is the answer to its most recent metadata request: the
\* head_container they send themselves when nothing is cached, or the headers
\* list() received.  upload, copy, move and delete leave the cache as it is,
\* and a directory call leaves the headers its own list() received before its
\* first per-object call.  So the count() that follows the delete of an
\* existing object, with metadata cached before the delete, sends no request
\* and returns the count cached before the deletion: one more than the
\* container holds when that cache was current.
C16_CountAndSizeReadTheCache ==
    [][/\ Calls({"count", "size"})
          => LET c == last'.c
             IN  IF meta[c] = Unset
                 THEN /\ last'.calls = <<Call("head_container", <<>>)>>
                      /\ last'.out = Reading(last'.op, Headers(store, acl))
                      /\ meta'[c] = Headers(store, acl)
                 ELSE /\ last'.calls = <<>>
                      /\ last'.out = Reading(last'.op, meta[c])
                      /\ meta'[c] = meta[c]
       /\ Calls({"list"}) => meta'[last'.c] = Headers(store, acl)
       /\ Calls({"upload", "copy", "move", "delete"}) => meta' = meta
       /\ Calls({"delete_directory"}) => meta'[last'.c] = Headers(store, acl)
       /\ (/\ Calls({"count"})
           /\ last.op = "delete"
           /\ last.c = last'.c
           /\ last.args.path \in DOMAIN last.pre
           /\ last.preMeta[last.c] # Unset)
          => /\ last'.calls = <<>>
             /\ last'.out = last.preMeta[last.c].count
             /\ last.preMeta[last.c].count = Cardinality(DOMAIN last.pre)
                => last'.out = Cardinality(DOMAIN store) + 1
      ]_vars

\* list(), delete('a/x'), count(): three objects counted, two stored
C16_Witness ==
    /\ last.op = "count"
    /\ last.calls = <<>>
    /\ last.prev.op = "delete"
    /\ last.prev.args.path = A_x
    /\ last.prev.log = <<"info: Successfully deleted the object">>
    /\ last.out = 3
    /\ Cardinality(DOMAIN store) = 2

----------------------------------------------------------------------------
(* grant_access through two Container objects of one container             *)
(* (checked under SpecAcl)                                                   *)

\* the entries of a header value
AclEntries(value) ==
    IF value = <<>> THEN {} ELSE {Split(value, ",")[i] : i \in 1..Len(Split(value, ","))}

\* C17: no grant is lost: when a grant_access(username, mode) made through
\* either Container object has gone through, the backend ACL of the mode
\* holds the entry granted and every entry it held before the call, the
\* entries granted through the other Container object among them, whatever
\* metadata the calling object had cached.
C17_NoGrantLost ==
    (last.op = "grant_access" /\ last.res = None)
    => /\ Entry(NameMap[last.args.user]) \in AclEntries(acl[last.args.mode])
       /\ AclEntries(last.preAcl[last.args.mode]) \subseteq AclEntries(acl[last.args.mode])


====
